---------------------------- MODULE Spec2Model ----------------------------
(***************************************************************************)
(* Amusement_park.py: the wind-load calculator calculate_wind_load, its    *)
(* st.cache_data memoization, and the five-step Streamlit wizard that      *)
(* feeds it.                                                               *)
(*                                                                         *)
(* Floating-point numbers are modelled as binary floating-point values     *)
(* with a Precision-bit significand, round-to-nearest-even, an unbounded   *)
(* exponent, signed zeros, infinities and NaN (IEEE-754 arithmetic with a  *)
(* narrower significand and without overflow/underflow).                   *)
(***************************************************************************)
EXTENDS Integers, Sequences, FiniteSets, TLC

(***************************************************************************)
(* Bounds of the model.                                                    *)
(***************************************************************************)
Precision == 12   \* bits of significand of the modelled floats
MaxHeight == 3    \* largest H passed directly to calculate_wind_load
MaxCache == 2     \* largest number of memoized argument tuples

(***************************************************************************)
(* Floating-point values.  A finite nonzero value is s * m * 2^e with      *)
(* 2^(Precision-1) <= m < 2^Precision.                                     *)
(***************************************************************************)
RECURSIVE Pow2(_)
Pow2(n) == IF n <= 0 THEN 1 ELSE 2 * Pow2(n - 1)

FixBits == Precision + 2   \* fraction bits of the fixed-point kernel of log/exp

FixOne == Pow2(FixBits)

\* a significand m satisfies MinSig <= m < MaxSig
MinSig == Pow2(Precision - 1)

MaxSig == Pow2(Precision)

Abs(i) == IF i < 0 THEN -i ELSE i

Sgn(i) == IF i < 0 THEN -1 ELSE 1

FZero(s) == [k |-> "num", s |-> s, m |-> 0, e |-> 0]

FInf(s) == [k |-> "inf", s |-> s, m |-> 0, e |-> 0]

FNaN == [k |-> "nan", s |-> 1, m |-> 0, e |-> 0]

FCplx == [k |-> "cplx", s |-> 1, m |-> 0, e |-> 0]

IsZero(x) == x.k = "num" /\ x.m = 0

IsFinite(x) == x.k = "num"

IsNaN(x) == x.k = "nan"

\* s * (n / d) * 2^e rounded to nearest, ties to even (n >= 0, d > 0)
RECURSIVE RoundDiv(_, _, _, _)
RoundDiv(s, n, d, e) ==
    IF n = 0 THEN FZero(s)
    ELSE LET q == n \div d IN
         IF q >= 4 * MaxSig THEN RoundDiv(s, n, 2 * d, e + 1)
         ELSE IF q < 4 * MinSig THEN RoundDiv(s, 2 * n, d, e - 1)
         ELSE LET base == q \div 4
                  low == q % 4
                  sticky == (n % d) # 0
                  up == low = 3 \/ (low = 2 /\ (sticky \/ base % 2 = 1))
                  m0 == IF up THEN base + 1 ELSE base
              IN IF m0 = MaxSig
                 THEN [k |-> "num", s |-> s, m |-> MinSig, e |-> e + 3]
                 ELSE [k |-> "num", s |-> s, m |-> m0, e |-> e + 2]

\* a Python int as a float
FromInt(i) == RoundDiv(Sgn(i), Abs(i), 1, 0)

\* the float nearest to the decimal literal n/d
Dec(n, d) == RoundDiv(Sgn(n), Abs(n), d, 0)

FNeg(x) == [x EXCEPT !.s = -x.s]

FMul(x, y) ==
    IF x.k = "nan" \/ y.k = "nan" THEN FNaN
    ELSE IF x.k = "cplx" \/ y.k = "cplx" THEN FCplx
    ELSE IF x.k = "inf" \/ y.k = "inf"
         THEN IF IsZero(x) \/ IsZero(y) THEN FNaN ELSE FInf(x.s * y.s)
    ELSE RoundDiv(x.s * y.s, x.m * y.m, 1, x.e + y.e)

\* numpy true division: a zero divisor yields inf or nan, never an exception
FDiv(x, y) ==
    IF x.k = "nan" \/ y.k = "nan" THEN FNaN
    ELSE IF x.k = "cplx" \/ y.k = "cplx" THEN FCplx
    ELSE IF x.k = "inf" THEN (IF y.k = "inf" THEN FNaN ELSE FInf(x.s * y.s))
    ELSE IF y.k = "inf" THEN FZero(x.s * y.s)
    ELSE IF IsZero(y) THEN (IF IsZero(x) THEN FNaN ELSE FInf(x.s * y.s))
    ELSE RoundDiv(x.s * y.s, x.m, y.m, x.e - y.e)

FAdd(x, y) ==
    IF x.k = "nan" \/ y.k = "nan" THEN FNaN
    ELSE IF x.k = "cplx" \/ y.k = "cplx" THEN FCplx
    ELSE IF x.k = "inf"
         THEN (IF y.k = "inf" /\ y.s # x.s THEN FNaN ELSE x)
    ELSE IF y.k = "inf" THEN y
    ELSE IF IsZero(x) THEN (IF IsZero(y) /\ x.s # y.s THEN FZero(1) ELSE y)
    ELSE IF IsZero(y) THEN x
    ELSE IF x.e - y.e > Precision + 2 THEN x
    ELSE IF y.e - x.e > Precision + 2 THEN y
    ELSE LET lo == IF x.e < y.e THEN x.e ELSE y.e
             sum == x.s * x.m * Pow2(x.e - lo) + y.s * y.m * Pow2(y.e - lo)
         IN IF sum = 0 THEN FZero(1) ELSE RoundDiv(Sgn(sum), Abs(sum), 1, lo)

\* IEEE comparison x < y (false when either side is NaN)
FLt(x, y) ==
    /\ x.k \in {"num", "inf"}
    /\ y.k \in {"num", "inf"}
    /\ LET d == FAdd(y, FNeg(x)) IN
       \/ d.k = "inf" /\ d.s = 1
       \/ d.k = "num" /\ d.m # 0 /\ d.s = 1

\* int(x) of a finite float: truncation toward zero
Trunc(x) ==
    IF x.e >= 0 THEN x.s * x.m * Pow2(x.e) ELSE x.s * (x.m \div Pow2(-x.e))

(***************************************************************************)
(* Logarithm and power.  The kernels work on fixed-point integers with     *)
(* FixBits fraction bits and the result is rounded to a float.             *)
(***************************************************************************)
\* ln 2 in fixed point: (22713 / 2^15) * 2^FixBits, rounded down
Ln2Fix == (22713 * Pow2(FixBits - 5)) \div Pow2(10)

\* sum over j >= i of t * t2^j / (2j+1), the series of atanh, terms below one unit dropped
RECURSIVE AtanhSeries(_, _, _)
AtanhSeries(term, t2, j) ==
    IF term = 0 THEN 0
    ELSE term \div (2 * j + 1) + AtanhSeries((term * t2) \div FixOne, t2, j + 1)

\* ln(f) in fixed point for a fixed-point f in [1, 2): 2 * atanh((f-1)/(f+1))
LnFix(f) ==
    LET t == ((f - FixOne) * FixOne) \div (f + FixOne)
        t2 == (t * t) \div FixOne
    IN 2 * AtanhSeries(t, t2, 0)

\* np.log / math.log with numpy's conventions: log(0) = -inf, log(x < 0) = nan
Ln(x) ==
    IF x.k = "nan" \/ x.k = "cplx" THEN FNaN
    ELSE IF x.k = "inf" THEN (IF x.s = 1 THEN FInf(1) ELSE FNaN)
    ELSE IF IsZero(x) THEN FInf(-1)
    ELSE IF x.s = -1 THEN FNaN
    ELSE LET f == x.m * (FixOne \div MinSig)
             k == x.e + Precision - 1
             total == k * Ln2Fix + LnFix(f)
         IN RoundDiv(Sgn(total), Abs(total), 1, -FixBits)

\* sum over j >= n of r^j / j!, the series of exp, terms below one unit dropped
RECURSIVE ExpSeries(_, _, _)
ExpSeries(term, r, n) ==
    IF term = 0 THEN 0
    ELSE term + ExpSeries(((term * r) \div FixOne) \div n, r, n + 1)

\* floor of a finite float times 2^FixBits
ToFix(x) ==
    LET sh == x.e + FixBits
        mag == IF sh >= 0 THEN x.m * Pow2(sh) ELSE x.m \div Pow2(-sh)
    IN IF x.s = 1 THEN mag
       ELSE IF sh < 0 /\ x.m % Pow2(-sh) # 0 THEN -(mag + 1) ELSE -mag

\* exp of a finite float
Exp(x) ==
    LET y == ToFix(x)
        k == IF y >= 0 THEN y \div Ln2Fix ELSE -((-y + Ln2Fix - 1) \div Ln2Fix)
        r == y - k * Ln2Fix
    IN RoundDiv(1, ExpSeries(FixOne, r, 1), 1, k - FixBits)

\* Python x ** y for a float y that is finite, positive and not an integer
Pow(x, y) ==
    IF x.k = "nan" THEN FNaN
    ELSE IF x.k = "cplx" THEN FCplx
    ELSE IF x.k = "inf" THEN (IF x.s = 1 THEN FInf(1) ELSE FCplx)
    ELSE IF IsZero(x) THEN FZero(1)
    ELSE IF x.s = -1 THEN FCplx
    ELSE Exp(FMul(y, Ln(x)))

(***************************************************************************)
(* calculate_wind_load(H, omega, g, rho_air, Ax, Ay, z0, c_dir, c_season,  *)
(* c0, cp).  An argument tuple is a record a with these eleven fields;     *)
(* a.H is an integer, the others are floats.  numpy arrays are sequences.  *)
(***************************************************************************)
\* a grid that stops one short: np.arange(1, H)
ArangeExclusive(H) == [i \in 1 .. H - 1 |-> i]

\* z = np.arange(1, H + 1): empty when H < 1
Arange(H) == [i \in 1 .. H |-> i]

\* a basic velocity that adds the rotation: c_dir * c_season * v_b0 + omega
VbWithRotation(a) ==
    FAdd(FMul(FMul(a.c_dir, a.c_season), FDiv(FromInt(100), Dec(36, 10))), a.omega)

\* v_b0 = 100 / 3.6 ; vb = c_dir * c_season * v_b0
Vb(a) == FMul(FMul(a.c_dir, a.c_season), FDiv(FromInt(100), Dec(36, 10)))

\* kr = 0.19 * (z0 / 0.05) ** 0.07
Kr(a) == FMul(Dec(19, 100), Pow(FDiv(a.z0, Dec(5, 100)), Dec(7, 100)))

\* the ratio turned over: np.log(z0 / z)
LogProfileInverted(z, z0) == [i \in DOMAIN z |-> Ln(FDiv(z0, FromInt(z[i])))]

\* np.log(z / z0), elementwise
LogProfile(z, z0) == [i \in DOMAIN z |-> Ln(FDiv(FromInt(z[i]), z0))]

\* cr = kr * np.log(z / z0)
Cr(kr, lg) == [i \in DOMAIN lg |-> FMul(kr, lg[i])]

\* vm = cr * c0 * vb
Vm(cr, c0, vb) == [i \in DOMAIN cr |-> FMul(FMul(cr[i], c0), vb)]

\* the index of the largest entry (np.argmax), 0 for an empty array
ArgMax(vm) ==
    IF Len(vm) = 0 THEN 0
    ELSE CHOOSE i \in DOMAIN vm :
            /\ \A j \in DOMAIN vm : ~FLt(vm[i], vm[j])
            /\ \A j \in 1 .. i - 1 : FLt(vm[j], vm[i])

\* the index of vm[-1]: the last element; 0 stands for the IndexError of an empty array
LastIndex(vm) == Len(vm)

\* kl = 1 ; Iv = kl / (c0 * np.log(z / z0))
Iv(c0, lg) == [i \in DOMAIN lg |-> FDiv(FromInt(1), FMul(c0, lg[i]))]

\* the gust factor without its parentheses: 0.5 * rho_air * (vm ** 2) * 1 + 7 * Iv
QpUnparenthesized(rho_air, vm, iv) ==
    [i \in DOMAIN vm |->
        FAdd(FMul(FMul(FMul(Dec(5, 10), rho_air), FMul(vm[i], vm[i])), FromInt(1)),
             FMul(FromInt(7), iv[i]))]

\* q_p = 0.5 * rho_air * (vm ** 2) * (1 + 7 * Iv)
Qp(rho_air, vm, iv) ==
    [i \in DOMAIN vm |->
        FMul(FMul(FMul(Dec(5, 10), rho_air), FMul(vm[i], vm[i])),
             FAdd(FromInt(1), FMul(FromInt(7), iv[i])))]

\* loads that skip the ground sample: q_p[1:] * cp * A / 1e3
FwTail(q_p, cp, A) ==
    [i \in 1 .. Len(q_p) - 1 |-> FDiv(FMul(FMul(q_p[i + 1], cp), A), FromInt(1000))]

\* the area added instead of multiplied: q_p * cp + A / 1e3
FwAffine(q_p, cp, A) ==
    [i \in DOMAIN q_p |-> FAdd(FMul(q_p[i], cp), FDiv(A, FromInt(1000)))]

\* Fwy = q_p * cp * Ay / 1e3 ; Fwx = q_p * cp * Ax / 1e3
Fw(q_p, cp, A) ==
    [i \in DOMAIN q_p |-> FDiv(FMul(FMul(q_p[i], cp), A), FromInt(1000))]

Raise(exc) ==
    [kind |-> "raise", exc |-> exc, z |-> <<>>, vm |-> <<>>, vm_max |-> FNaN,
     Fwy |-> <<>>, Fwx |-> <<>>, q_p |-> <<>>, Iv |-> <<>>]

calculate_wind_load(a) ==
    LET z == Arange(a.H)
        vb == Vb(a)
        kr == Kr(a)
        lg == LogProfile(z, a.z0)
        cr == Cr(kr, lg)
        vm == Vm(cr, a.c0, vb)
        iv == Iv(a.c0, lg)
        q_p == Qp(a.rho_air, vm, iv)
    IN IF LastIndex(vm) \notin DOMAIN vm THEN Raise("IndexError")
       ELSE [kind |-> "ok", exc |-> "none", z |-> z, vm |-> vm,
             vm_max |-> vm[LastIndex(vm)],
             Fwy |-> Fw(q_p, a.cp, a.Ay), Fwx |-> Fw(q_p, a.cp, a.Ax),
             q_p |-> q_p, Iv |-> iv]

(***************************************************************************)
(* Argument tuples of the direct calls.                                    *)
(***************************************************************************)
\* the defaults of the signature, with the wizard's default omega, g and rho_air
DefaultArgs ==
    [H |-> 1, omega |-> Dec(2094, 10000), g |-> Dec(981, 100),
     rho_air |-> Dec(1225, 1000), Ax |-> Dec(3033, 10), Ay |-> Dec(5925, 10),
     z0 |-> Dec(1, 100), c_dir |-> FromInt(1), c_season |-> FromInt(1),
     c0 |-> FromInt(1), cp |-> Dec(12, 10)]

Double(x) == FMul(FromInt(2), x)

\* argument tuples that differ from the defaults in one respect (two where noted)
Variants ==
    UNION {
        {d}
        \cup {[d EXCEPT !.omega = Dec(628, 1000), !.g = Dec(162, 100)]}
        \cup {[d EXCEPT !.rho_air = FZero(1)]}
        \cup {[d EXCEPT !.Ax = Double(d.Ax)], [d EXCEPT !.Ay = Double(d.Ay)]}
        \cup {[d EXCEPT !.z0 = r] : r \in {FZero(1), FromInt(1), FromInt(2)}}
        \cup {[d EXCEPT !.z0 = FromInt(1), !.Ax = Double(d.Ax)]}
        \cup {[d EXCEPT !.c0 = FZero(1)], [d EXCEPT !.c_season = FromInt(-1)]}
        : d \in {DefaultArgs}}

Heights == 0 .. MaxHeight

\* every variant at every height, and the defaults at a negative height
ArgSet ==
    {[v EXCEPT !.H = h] : v \in Variants, h \in Heights}
        \cup {[d EXCEPT !.H = -1] : d \in {DefaultArgs}}

(***************************************************************************)
(* Session state of the wizard and the values a user can enter.            *)
(***************************************************************************)
\* a Python dict is a function from its keys; d.get(key, dflt) and d.update(u)
EmptyDict == [key \in {} |-> 0]

Get(d, key, dflt) == IF key \in DOMAIN d THEN d[key] ELSE dflt

Update(d, u) ==
    [key \in DOMAIN d \cup DOMAIN u |-> IF key \in DOMAIN u THEN u[key] ELSE d[key]]

\* the advanced_params dict of the session-state initialisation and of reset_design
DefaultAdvanced ==
    [key \in {"wind_force", "earthquake_force", "snow_force", "height", "gravity",
              "air_density", "safety_factor"} |->
        CASE key = "wind_force" -> TRUE
          [] key = "earthquake_force" -> FALSE
          [] key = "snow_force" -> FALSE
          [] key = "height" -> Dec(667, 10)
          [] key = "gravity" -> Dec(981, 100)
          [] key = "air_density" -> Dec(1225, 1000)
          [] key = "safety_factor" -> Dec(15, 10)]

\* x <= y on floats
FLe(x, y) == FLt(x, y) \/ (x.k = "num" /\ y.k = "num" /\ ~FLt(y, x))

BasicKeys == {"num_cabins", "diameter", "capacity", "rotation_speed"}

\* value= default of the step-1 number inputs
BasicDefault ==
    [key \in BasicKeys |->
        CASE key = "num_cabins" -> 12
          [] key = "diameter" -> FromInt(60)
          [] key = "capacity" -> 6
          [] key = "rotation_speed" -> FromInt(2)]

\* what the user types into the step-1 number inputs
BasicTyped ==
    [key \in BasicKeys |->
        CASE key = "num_cabins" -> {0, 8}
          [] key = "diameter" -> {Dec(5, 10)}
          [] key = "capacity" -> {0}
          [] key = "rotation_speed" -> {Dec(5, 100)}]

\* min_value of the step-1 number inputs: a typed value below it is not accepted
BasicAccepts(key, v) ==
    CASE key = "num_cabins" -> v >= 1
      [] key = "diameter" -> FLe(FromInt(1), v)
      [] key = "capacity" -> v >= 1
      [] key = "rotation_speed" -> FLe(Dec(1, 10), v)

NumberKeys == {"height", "gravity", "air_density", "safety_factor"}

CheckboxKeys == {"wind_force", "earthquake_force", "snow_force"}

\* what the user types into the step-2 number inputs and sets the checkboxes to
AdvancedTyped ==
    [key \in NumberKeys \cup CheckboxKeys |->
        CASE key = "height" -> {Dec(5, 10), FromInt(1), Dec(25, 10)}
          [] key = "gravity" -> {Dec(162, 100)}
          [] key = "air_density" -> {FZero(1)}
          [] key = "safety_factor" -> {Dec(5, 10)}
          [] key = "wind_force" -> BOOLEAN
          [] key = "earthquake_force" -> BOOLEAN
          [] key = "snow_force" -> {FALSE}]

\* min_value of the step-2 number inputs; gravity and air_density have none
AdvancedAccepts(key, v) ==
    CASE key = "height" -> FLe(FromInt(1), v)
      [] key = "safety_factor" -> FLe(FromInt(1), v)
      [] OTHER -> TRUE

\* np.pi
Pi == Dec(31416, 10000)

\* the arguments of the step-3 call; the other seven take the signature's defaults
WizardArgs(bp, ap) ==
    [DefaultArgs EXCEPT
        !.H = Trunc(ap["height"]),
        !.omega = FDiv(FMul(FMul(bp["rotation_speed"], FromInt(2)), Pi), FromInt(60)),
        !.g = ap["gravity"],
        !.rho_air = ap["air_density"]]

\* every argument tuple the wizard can pass
WizardArgSet ==
    {WizardArgs([rotation_speed |-> r], [height |-> h, gravity |-> gg, air_density |-> d]) :
        r \in {BasicDefault["rotation_speed"]}
              \cup {v \in BasicTyped["rotation_speed"] : BasicAccepts("rotation_speed", v)},
        h \in {DefaultAdvanced["height"]}
              \cup {v \in AdvancedTyped["height"] : AdvancedAccepts("height", v)},
        gg \in {DefaultAdvanced["gravity"]} \cup AdvancedTyped["gravity"],
        d \in {DefaultAdvanced["air_density"]} \cup AdvancedTyped["air_density"]}

\* the outcome of each call, computed once
Outcome == [a \in ArgSet \cup WizardArgSet |-> calculate_wind_load(a)]

(***************************************************************************)
(* State.                                                                  *)
(***************************************************************************)
VARIABLES
    step,               \* st.session_state.step
    ride_type,          \* st.session_state.ride_type ("None" for None)
    basic_params,       \* st.session_state.basic_params
    advanced_params,    \* st.session_state.advanced_params
    validation_errors,  \* st.session_state.validation_errors
    page,               \* the step whose widgets the last script run rendered
    error,              \* the uncaught exception of the last script run, or "none"
    cache,              \* the st.cache_data store of calculate_wind_load
    call,               \* <<a>>: the last run called calculate_wind_load(a); << >>: no call
    result,             \* <<r>>: what that call returned or raised
    hit                 \* that call was answered from the cache

wizard == <<step, ride_type, basic_params, advanced_params, validation_errors, page, error>>

calc == <<cache, call, result, hit>>

vars == <<step, ride_type, basic_params, advanced_params, validation_errors, page, error,
          cache, call, result, hit>>

Init ==
    /\ step = 0
    /\ ride_type = "None"
    /\ basic_params = EmptyDict
    /\ advanced_params = DefaultAdvanced
    /\ validation_errors = <<>>
    /\ page = 0
    /\ error = "none"
    /\ cache = EmptyDict
    /\ call = <<>>
    /\ result = <<>>
    /\ hit = FALSE

(***************************************************************************)
(* The memoized call.                                                      *)
(***************************************************************************)
\* a key that leaves rho_air out
CacheKeyWithoutDensity(a) == [a EXCEPT !.rho_air = FZero(1)]

\* st.cache_data keys an entry by the values of all the arguments
CacheKey(a) == a

\* the cache may take this call: it holds the key or has room for it
Cacheable(a) == CacheKey(a) \in DOMAIN cache \/ Cardinality(DOMAIN cache) < MaxCache

\* calculate_wind_load(a) through @st.cache_data; an exception is not stored
CachedCall(a) ==
    LET key == CacheKey(a) IN
    /\ call' = <<a>>
    /\ IF key \in DOMAIN cache
       THEN /\ result' = <<cache[key]>>
            /\ hit' = TRUE
            /\ cache' = cache
       ELSE \E r \in {Outcome[a]} :
            /\ result' = <<r>>
            /\ hit' = FALSE
            /\ cache' = IF r.kind = "ok" THEN cache @@ (key :> r) ELSE cache

\* a direct call of the calculator with any argument tuple
Call ==
    \E a \in ArgSet :
        /\ Cacheable(a)
        /\ CachedCall(a)
        /\ UNCHANGED wizard

(***************************************************************************)
(* The wizard.  A user interaction reruns the script: the widget's         *)
(* on_click callback first, then the script body for the current step.     *)
(***************************************************************************)
\* the session state as one value
Session ==
    [step |-> step, ride_type |-> ride_type, basic_params |-> basic_params,
     advanced_params |-> advanced_params, validation_errors |-> validation_errors]

Min(i, j) == IF i < j THEN i ELSE j

Max(i, j) == IF i > j THEN i ELSE j

validate_basic_params(params, rt) ==
    IF rt = "Ferris Wheel"
    THEN (IF "num_cabins" \notin DOMAIN params \/ params["num_cabins"] <= 0
          THEN <<"Number of cabins must be greater than 0">> ELSE <<>>)
         \o (IF "diameter" \notin DOMAIN params \/ FLe(params["diameter"], FZero(1))
             THEN <<"Diameter must be greater than 0">> ELSE <<>>)
         \o (IF "capacity" \notin DOMAIN params \/ params["capacity"] <= 0
             THEN <<"Cabin capacity must be greater than 0">> ELSE <<>>)
    ELSE <<>>

\* a Next that records the errors and advances all the same
GoNextUngated(S) ==
    [S EXCEPT !.validation_errors = validate_basic_params(S.basic_params, S.ride_type),
              !.step = Min(S.step + 1, 4)]

go_next_from_basic(S) ==
    LET errors == validate_basic_params(S.basic_params, S.ride_type) IN
    IF errors # <<>>
    THEN [S EXCEPT !.validation_errors = errors]
    ELSE [S EXCEPT !.validation_errors = <<>>, !.step = Min(S.step + 1, 4)]

\* the mandatory fields absent from advanced_params, in the order of the list
Missing(ap) ==
    LET fields == <<"height", "gravity", "air_density", "safety_factor">>
        F[i \in 0 .. Len(fields)] ==
            IF i = 0 THEN <<>>
            ELSE IF fields[i] \notin DOMAIN ap THEN Append(F[i - 1], fields[i])
            ELSE F[i - 1]
    IN F[Len(fields)]

go_next_from_advanced(S) ==
    LET missing == Missing(S.advanced_params) IN
    IF missing # <<>>
    THEN [S EXCEPT !.validation_errors = missing]
    ELSE [S EXCEPT !.validation_errors = <<>>, !.step = Min(S.step + 1, 4)]

\* the on_click lambda of next_from_results
next_from_results(S) == [S EXCEPT !.step = Min(S.step + 1, 4)]

\* back all the way to the selection step
GoBackToStart(S) == [S EXCEPT !.step = 0]

go_back(S) == [S EXCEPT !.step = Max(S.step - 1, 0)]

reset_design(S) ==
    [step |-> 0, ride_type |-> "None", basic_params |-> EmptyDict,
     advanced_params |-> DefaultAdvanced, validation_errors |-> <<>>]

NoEvent == [key |-> "none", value |-> FALSE]

\* what a widget returns: the value just entered, else the stored value or the default
WidgetValue(d, dflt, key, ev) ==
    IF ev.key = key THEN ev.value ELSE Get(d, key, dflt[key])

NoCall ==
    /\ call' = <<>>
    /\ result' = <<>>
    /\ hit' = FALSE
    /\ cache' = cache

\* a roller coaster button that advances like the Ferris wheel button
AdvancingRides == {"ferris_btn", "coaster_btn"}

\* the ride buttons whose handler sets step = 1
ImmediateRides == {"ferris_btn"}

\* step 0: the three ride buttons
RenderSelect(S, ev) ==
    /\ ride_type' = CASE ev.key = "ferris_btn" -> "Ferris Wheel"
                      [] ev.key = "coaster_btn" -> "Roller Coaster"
                      [] ev.key = "other_btn" -> "Other Rides"
                      [] OTHER -> S.ride_type
    /\ step' = IF ev.key \in ImmediateRides THEN 1 ELSE S.step
    /\ basic_params' = S.basic_params
    /\ advanced_params' = S.advanced_params
    /\ error' = "none"
    /\ NoCall

\* step 1 writing back only the three validated inputs
RenderBasicValidated(S, ev) ==
    /\ basic_params' =
          IF S.ride_type = "Ferris Wheel"
          THEN Update(S.basic_params,
                      [key \in BasicKeys \ {"rotation_speed"} |->
                          WidgetValue(S.basic_params, BasicDefault, key, ev)])
          ELSE S.basic_params
    /\ step' = S.step
    /\ ride_type' = S.ride_type
    /\ advanced_params' = S.advanced_params
    /\ error' = "none"
    /\ NoCall

\* step 1: the four number inputs are written back into basic_params
RenderBasic(S, ev) ==
    /\ basic_params' =
          IF S.ride_type = "Ferris Wheel"
          THEN Update(S.basic_params,
                      [key \in BasicKeys |->
                          WidgetValue(S.basic_params, BasicDefault, key, ev)])
          ELSE S.basic_params
    /\ step' = S.step
    /\ ride_type' = S.ride_type
    /\ advanced_params' = S.advanced_params
    /\ error' = "none"
    /\ NoCall

\* step 2: the checkboxes and number inputs are written back into advanced_params
RenderAdvanced(S, ev) ==
    /\ advanced_params' =
          Update(S.advanced_params,
                 [key \in CheckboxKeys \cup NumberKeys |->
                     WidgetValue(S.advanced_params, DefaultAdvanced, key, ev)])
    /\ step' = S.step
    /\ ride_type' = S.ride_type
    /\ basic_params' = S.basic_params
    /\ error' = "none"
    /\ NoCall

\* step 3: the wind analysis calls the calculator
RenderResults(S) ==
    /\ step' = S.step
    /\ ride_type' = S.ride_type
    /\ basic_params' = S.basic_params
    /\ advanced_params' = S.advanced_params
    /\ IF Get(S.advanced_params, "wind_force", TRUE) /\ DOMAIN S.basic_params # {}
       THEN IF "rotation_speed" \notin DOMAIN S.basic_params
               \/ {"height", "gravity", "air_density"} \ DOMAIN S.advanced_params # {}
            THEN error' = "KeyError" /\ NoCall
            ELSE LET a == WizardArgs(S.basic_params, S.advanced_params) IN
                 /\ Cacheable(a)
                 /\ CachedCall(a)
                 /\ error' = result'[1].exc
       ELSE error' = "none" /\ NoCall

\* step 4: the component overview only reads the session state
RenderFinal(S) ==
    /\ step' = S.step
    /\ ride_type' = S.ride_type
    /\ basic_params' = S.basic_params
    /\ advanced_params' = S.advanced_params
    /\ error' = "none"
    /\ NoCall

\* one run of the script body on session state S; the event ev reaches its widget
\* only if the widget is rendered again
Script(S, ev) ==
    LET seen == IF page = S.step THEN ev ELSE NoEvent IN
    /\ page' = S.step
    /\ validation_errors' = S.validation_errors
    /\ CASE S.step = 0 -> RenderSelect(S, seen)
         [] S.step = 1 -> RenderBasic(S, seen)
         [] S.step = 2 -> RenderAdvanced(S, seen)
         [] S.step = 3 -> RenderResults(S)
         [] S.step = 4 -> RenderFinal(S)

ClickRide ==
    /\ page = 0
    /\ \E b \in {"ferris_btn", "coaster_btn", "other_btn"} :
          Script(Session, [key |-> b, value |-> TRUE])

EditBasic ==
    /\ page = 1
    /\ ride_type = "Ferris Wheel"
    /\ \E key \in BasicKeys :
          \E v \in BasicTyped[key] :
              /\ BasicAccepts(key, v)
              /\ Script(Session, [key |-> key, value |-> v])

EditAdvanced ==
    /\ page = 2
    /\ \E key \in CheckboxKeys \cup NumberKeys :
          \E v \in AdvancedTyped[key] :
              /\ AdvancedAccepts(key, v)
              /\ Script(Session, [key |-> key, value |-> v])

ClickNextBasic == page = 1 /\ Script(go_next_from_basic(Session), NoEvent)

ClickNextAdvanced == page = 2 /\ Script(go_next_from_advanced(Session), NoEvent)

ClickNextResults == page = 3 /\ Script(next_from_results(Session), NoEvent)

ClickBack == page \in 1 .. 4 /\ Script(go_back(Session), NoEvent)

ClickReset == page = 4 /\ Script(reset_design(Session), NoEvent)

WizardNext ==
    \/ ClickRide
    \/ EditBasic
    \/ EditAdvanced
    \/ ClickNextBasic
    \/ ClickNextAdvanced
    \/ ClickNextResults
    \/ ClickBack
    \/ ClickReset

WizardSpec == Init /\ [][WizardNext]_vars

(***************************************************************************)
(* go_next_from_basic on its own, applied to session states the widgets    *)
(* need not have produced.                                                 *)
(***************************************************************************)
\* basic_params dicts: empty, complete, with a key missing, with values <= 0
GateParams ==
    UNION {
        {EmptyDict, d}
        \cup {[key \in BasicKeys \ {k} |-> d[key]] : k \in {"capacity", "rotation_speed"}}
        \cup {[d EXCEPT !["num_cabins"] = 0], [d EXCEPT !["diameter"] = FZero(1)],
              [d EXCEPT !["capacity"] = -1],
              [d EXCEPT !["num_cabins"] = 0, !["capacity"] = 0]}
        : d \in {BasicDefault}}

GateRides == {"None", "Ferris Wheel", "Roller Coaster"}

\* validation_errors before the click: none, or a list left by an earlier callback
GateErrors == {<<>>, <<"height">>}

GateInit ==
    /\ step \in 0 .. 4
    /\ ride_type \in GateRides
    /\ basic_params \in GateParams
    /\ advanced_params = DefaultAdvanced
    /\ validation_errors \in GateErrors
    /\ page = step
    /\ error = "none"
    /\ cache = EmptyDict
    /\ call = <<>>
    /\ result = <<>>
    /\ hit = FALSE

\* the callback alone: it assigns session state and nothing else
NextBasicCallback ==
    \E T \in {go_next_from_basic(Session)} :
        /\ step' = T.step
        /\ ride_type' = T.ride_type
        /\ basic_params' = T.basic_params
        /\ advanced_params' = T.advanced_params
        /\ validation_errors' = T.validation_errors
        /\ UNCHANGED <<page, error, calc>>

GateNext == NextBasicCallback

GateSpec == GateInit /\ [][GateNext]_vars

Next == Call

Spec == Init /\ [][Next]_vars

(***************************************************************************)
(* Properties.                                                             *)
(***************************************************************************)
Called == call # <<>>

Positive(x) == FLt(FZero(1), x)

\* the stated preconditions: height >= 1, roughnessLen > 0, airDensity > 0
Valid(a) == a.H >= 1 /\ Positive(a.z0) /\ Positive(a.rho_air)

Profiles(r) == <<r.vm, r.Iv, r.q_p, r.Fwx, r.Fwy>>

\* no entry of the result is NaN, infinite or complex
AllFinite(r) ==
    /\ IsFinite(r.vm_max)
    /\ \A p \in 1 .. 5 : \A i \in DOMAIN Profiles(r)[p] : IsFinite(Profiles(r)[p][i])

\* the quantities of one elevation zi, each by its own formula
ValueAt(a, zi) ==
    LET lg == Ln(FDiv(FromInt(zi), a.z0))
        dv == FMul(a.c0, lg)
        iv == FDiv(FromInt(1), dv)
        vm == FMul(FMul(FMul(Kr(a), lg), a.c0), Vb(a))
        q == FMul(FMul(FMul(Dec(5, 10), a.rho_air), FMul(vm, vm)),
                  FAdd(FromInt(1), FMul(FromInt(7), iv)))
    IN [divisor |-> dv, Iv |-> iv, vm |-> vm, q_p |-> q,
        Fwx |-> FDiv(FMul(FMul(q, a.cp), a.Ax), FromInt(1000)),
        Fwy |-> FDiv(FMul(FMul(q, a.cp), a.Ay), FromInt(1000))]

\* ValueAt at the elevations 1 .. H of every argument tuple
ProfileAt == [a \in ArgSet |-> [i \in 1 .. a.H |-> ValueAt(a, i)]]

\* C1: a call with height < 1, roughnessLen <= 0 or airDensity <= 0 fails with
\* InvalidInput and returns no result
C1_RejectsInvalidInput ==
    Called /\ ~Valid(call[1]) =>
        result[1].kind = "raise" /\ result[1].exc = "InvalidInput"

AtElevation(a, i) == a.z0 = FromInt(i)

C3_CacheTransparent == Called => result[1] = Outcome[call[1]]

C3_Witness == Called /\ hit /\ Cardinality(DOMAIN cache) = MaxCache

\* C4: for a height h >= 1 the returned z has h entries, starts at 1 and each
\* entry is the previous one plus 1
C4_ElevationGrid ==
    Called /\ call[1].H >= 1 =>
        LET z == result[1].z IN
        /\ result[1].kind = "ok"
        /\ Len(z) = call[1].H
        /\ z[1] = 1
        /\ \A i \in 2 .. Len(z) : z[i] = z[i - 1] + 1
        /\ call[1].H = 1 => z = <<1>>

C4_Witness == Called /\ call[1].H = MaxHeight /\ result[1].z[MaxHeight] = MaxHeight

\* C5: in every result vm, Iv, q_p, Fwx and Fwy have exactly height entries and
\* entry i is the value at elevation z[i] = i
C5_ParallelProfiles ==
    Called /\ result[1].kind = "ok" =>
        LET a == call[1]
            r == result[1]
        IN /\ \A p \in 1 .. 5 : Len(Profiles(r)[p]) = a.H
           /\ Len(r.z) = a.H
           /\ \A i \in 1 .. a.H :
                 \E at \in {ProfileAt[a][r.z[i]]} :
                    /\ r.z[i] = i
                    /\ r.Iv[i] = at.Iv
                    /\ r.vm[i] = at.vm
                    /\ r.q_p[i] = at.q_p
                    /\ r.Fwx[i] = at.Fwx
                    /\ r.Fwy[i] = at.Fwy

C5_Witness ==
    /\ Called /\ result[1].kind = "ok"
    /\ Len(result[1].Fwy) = MaxHeight
    /\ result[1].vm[1] # result[1].vm[MaxHeight]

\* C6: vm_max is the last entry of vm, the value at z = height, also when another
\* entry is larger
C6_VmMaxIsLast ==
    Called /\ result[1].kind = "ok" =>
        /\ Len(result[1].vm) = call[1].H
        /\ result[1].vm_max = result[1].vm[call[1].H]

C6_Witness ==
    /\ Called /\ result[1].kind = "ok"
    /\ call[1].H >= 2
    /\ result[1].vm_max = result[1].vm[call[1].H]
    /\ FLt(result[1].vm_max, result[1].vm[1])

\* the argument tuples agree except for omega and g
SameButOmegaG(a, b) == [a EXCEPT !.omega = b.omega, !.g = b.g] = b

\* C7: a call returns what every earlier call that differs from it only in omega
\* and gravity returned
C7_OmegaGravityUnused ==
    Called /\ result[1].kind = "ok" =>
        \A b \in DOMAIN cache : SameButOmegaG(call[1], b) => result[1] = cache[b]

C7_Witness ==
    /\ Called /\ result[1].kind = "ok"
    /\ call[1].H >= 2
    /\ \E b \in DOMAIN cache :
          /\ SameButOmegaG(call[1], b)
          /\ call[1].omega # b.omega
          /\ call[1].g # b.g

\* b is a with areaX doubled, b is a with areaY doubled
DoubledAx(a, b) == b = [a EXCEPT !.Ax = b.Ax] /\ b.Ax = Double(a.Ax)

DoubledAy(a, b) == b = [a EXCEPT !.Ay = b.Ay] /\ b.Ay = Double(a.Ay)

\* the loads of rb are those of ra with Fwx doubled at every elevation, Fwy the same
FwxDoubled(ra, rb) ==
    /\ \A i \in DOMAIN ra.Fwx : rb.Fwx[i] = Double(ra.Fwx[i])
    /\ rb.Fwy = ra.Fwy

FwyDoubled(ra, rb) ==
    /\ \A i \in DOMAIN ra.Fwy : rb.Fwy[i] = Double(ra.Fwy[i])
    /\ rb.Fwx = ra.Fwx

DefaultConstants(a) ==
    /\ a.z0 = DefaultArgs.z0
    /\ a.c_dir = FromInt(1) /\ a.c_season = FromInt(1) /\ a.c0 = FromInt(1)

\* C9: with the default constants vm is strictly increasing in elevation, so vm_max
\* is its largest entry
C9_VmIncreasing ==
    Called /\ result[1].kind = "ok" /\ DefaultConstants(call[1]) =>
        LET vm == result[1].vm IN
        /\ \A i \in DOMAIN vm : \A j \in DOMAIN vm : i < j => FLt(vm[i], vm[j])
        /\ \A i \in DOMAIN vm : FLe(vm[i], result[1].vm_max)

C9_Witness ==
    /\ Called /\ result[1].kind = "ok" /\ DefaultConstants(call[1])
    /\ call[1].H = MaxHeight
    /\ FLt(result[1].vm[MaxHeight - 1], result[1].vm_max)

\* C10: whenever step 3 calls the calculator, the height argument is the entered
\* height truncated to an integer and is >= 1, and the airDensity argument is > 0
C10_WizardPassesValidInput ==
    Called =>
        /\ call[1].H = Trunc(advanced_params["height"])
        /\ call[1].H >= 1
        /\ Positive(call[1].rho_air)

\* C11: step stays in 0 .. 4, and every interaction other than Start New Design
\* changes it by at most 1
C11_StepInRange ==
    /\ [](step \in 0 .. 4)
    /\ [][ClickReset \/ Abs(step' - step) <= 1]_vars

\* a design was carried to the results and then reset
C11_Witness ==
    /\ step = 0 /\ page = 0
    /\ ride_type = "None"
    /\ DOMAIN cache # {}

\* C12: beyond the selection step the ride is the Ferris wheel
C12_OnlyFerrisAdvances == step >= 1 => ride_type = "Ferris Wheel"

\* another ride selected after coming back from step 1
C12_Witness ==
    /\ step = 0
    /\ ride_type \in {"Roller Coaster", "Other Rides"}
    /\ DOMAIN basic_params # {}

\* C13: at step 3 basic_params holds rotation_speed, num_cabins, diameter and
\* capacity, and the lookups of the wind analysis find their keys
C13_RotationSpeedPresent ==
    step = 3 =>
        /\ {"rotation_speed", "num_cabins", "diameter", "capacity"}
               \subseteq DOMAIN basic_params
        /\ error # "KeyError"

\* the wind analysis ran at step 3, a second time, on edited basic parameters
C13_Witness ==
    /\ step = 3 /\ page = 3
    /\ Called /\ hit
    /\ basic_params["num_cabins"] # BasicDefault["num_cabins"]
    /\ basic_params["rotation_speed"] = BasicDefault["rotation_speed"]

\* key is missing from params or its value is <= 0
MissingOrNotPositive(params, key) ==
    \/ key \notin DOMAIN params
    \/ IF key = "diameter" THEN FLe(params[key], FZero(1)) ELSE params[key] <= 0

\* C14: go_next_from_basic leaves step alone and stores the errors when
\* validate_basic_params reports any (for a Ferris wheel: num_cabins, diameter or
\* capacity missing or <= 0); otherwise it clears validation_errors and advances
\* step by one, capped at 4; it modifies no other session field
C14_NextBasicGated ==
    [][LET errors == validate_basic_params(basic_params, ride_type) IN
       /\ errors # <<>> <=>
             /\ ride_type = "Ferris Wheel"
             /\ \E key \in {"num_cabins", "diameter", "capacity"} :
                   MissingOrNotPositive(basic_params, key)
       /\ IF errors # <<>>
          THEN step' = step /\ validation_errors' = errors
          ELSE step' = Min(step + 1, 4) /\ validation_errors' = <<>>
       /\ UNCHANGED <<ride_type, basic_params, advanced_params>>]_vars

\* two errors were reported and step was left where it was
C14_Witness ==
    /\ ride_type = "Ferris Wheel"
    /\ validation_errors = <<"Number of cabins must be greater than 0",
                             "Cabin capacity must be greater than 0">>
    /\ page = step

=============================================================================
